---- MODULE Spec2Model ----
(***************************************************************************)
(* Model of the numeric codec, the field serializers and the Signer of     *)
(* zksync.js (src/src/signer.ts, which holds signer.ts followed by         *)
(* utils.ts).                                                              *)
(*                                                                         *)
(* Representation                                                          *)
(*   BN / BigNumber : a normalised sequence of limbs (see below), so that  *)
(*                    equality of two BNs is equality of their toString(). *)
(*   Buffer         : a sequence of bytes 0..255.                          *)
(*   bit array      : a sequence of BOOLEAN.                               *)
(*   string         : a sequence of one-character strings.                 *)
(*   a call's outcome: [ok, val, err]; err is the message of the thrown    *)
(*                    Error.                                               *)
(***************************************************************************)
EXTENDS Integers, Sequences, FiniteSets, TLC

(***************************************************************************)
(* Bounds of the model.                                                    *)
(***************************************************************************)
Spread == 4
LenSlack == 1

(***************************************************************************)
(* Outcomes.                                                               *)
(***************************************************************************)
Ok(v) == [ok |-> TRUE, val |-> v, err |-> ""]
Err(e) == [ok |-> FALSE, val |-> <<>>, err |-> e]

Reverse(s) == [i \in 1..Len(s) |-> s[Len(s) + 1 - i]]

(***************************************************************************)
(* JavaScript runs its statements in order.  After(done, value) is value,  *)
(* computed once the intermediate results listed in done are complete.     *)
(***************************************************************************)
After(done, value) == CASE {done} # {} -> value

\* const x = value; followed by Rest(x): the value is computed once
Bind(value, Rest(_)) == CHOOSE r \in {Rest(x) : x \in {value}} : TRUE

Min(a, b) == IF a < b THEN a ELSE b

(***************************************************************************)
(* for (i = lo; i <= hi; i++) st = Step(st, i).  The rounds are run as     *)
(* sixteen consecutive runs, each finished before the next starts, which   *)
(* keeps the evaluation of a long loop shallow.                            *)
(***************************************************************************)
RECURSIVE Loop(_, _, _, _)
Loop(Step(_, _), st, lo, hi) ==
    IF lo > hi THEN st
    ELSE IF lo = hi THEN Step(st, lo)
    ELSE LET q == (hi - lo + 4) \div 4
             \* the k-th run of q rounds, started from s
             Run(s, k) == Loop(Step, s, lo + (k - 1) * q, Min(lo + k * q - 1, hi))
             r1 == Run(st, 1)
             r2 == Run(r1, 2)
             r3 == Run(r2, 3)
         IN  After(<<r1, r2, r3>>, Run(r3, 4))

(***************************************************************************)
(* bn.js arithmetic.  A BN is a sequence of limbs in base 10^4, least      *)
(* significant first, without high zero limbs (zero is <<0>>).  The        *)
(* operations are functions: their operands are values.                    *)
(***************************************************************************)
LimbBase == 10 ^ 4

BNs == Seq(Nat)

\* the elements of a sequence, computed
Tuple[f \in Seq(Int)] == SubSeq(f, 1, Len(f))

\* the sequence without its high zero elements
StripHigh[d \in Seq(Int)] ==
    LET nz == {i \in 1..Len(d) : d[i] # 0}
    IN  IF nz = {} THEN <<>>
        ELSE SubSeq(d, 1, CHOOSE i \in nz : \A j \in nz : j <= i)

Norm[d \in Seq(Int)] == IF StripHigh[d] = <<>> THEN <<0>> ELSE StripHigh[d]

\* new BN(n) for a number 0 <= n < 2^31
NatToBN[n \in Nat] ==
    Norm[<<n % LimbBase, (n \div LimbBase) % LimbBase, n \div (LimbBase * LimbBase)>>]

\* every column keeps its digit and hands its excess to the next column
Pass[x \in Seq(Nat), base \in Nat] ==
    Tuple[[i \in 1..(Len(x) + 1) |->
             (IF i <= Len(x) THEN x[i] % base ELSE 0)
           + (IF i > 1 THEN x[i - 1] \div base ELSE 0)]]

\* the digits of columns that are at most base: column i receives a carry when
\* a column below it is full and every column between them passes the carry on
Settle[x \in Seq(Nat), base \in Nat] ==
    Norm[[i \in 1..Len(x) |->
            (x[i] + (IF \E j \in 1..(i - 1) :
                          /\ x[j] = base
                          /\ \A k \in (j + 1)..(i - 1) : x[k] >= base - 1
                     THEN 1 ELSE 0)) % base]]

\* carry propagation over columns below 2^31, least significant first: four
\* passes bring every column down to at most base
CarryPass[cols \in Seq(Nat), base \in Nat] ==
    Settle[Pass[Pass[Pass[Pass[Tuple[cols], base], base], base], base], base]

Limb(a, i) == IF i <= Len(a) THEN a[i] ELSE 0
MaxLen(a, b) == IF Len(a) > Len(b) THEN Len(a) ELSE Len(b)

BNadd[a \in BNs, b \in BNs] ==
    CarryPass[[i \in 1..MaxLen(a, b) |-> Limb(a, i) + Limb(b, i)], LimbBase]

\* the digits of a - b from the limb differences x: limb i lends when a limb
\* below it is negative and every limb between them is zero or negative
Borrow[x \in Seq(Int)] ==
    Norm[[i \in 1..Len(x) |->
            (x[i] - (IF \E j \in 1..(i - 1) :
                          /\ x[j] < 0
                          /\ \A k \in (j + 1)..(i - 1) : x[k] <= 0
                     THEN 1 ELSE 0)) % LimbBase]]

\* a.sub(b) for a >= b (subn(1) of a power of two in the source)
BNsub[a \in BNs, b \in BNs] == Borrow[Tuple[[i \in 1..Len(a) |-> a[i] - Limb(b, i)]]]

BNgt[a \in BNs, b \in BNs] ==
    IF Len(a) # Len(b) THEN Len(a) > Len(b)
    ELSE LET diff == {i \in 1..Len(a) : a[i] # b[i]}
         IN  /\ diff # {}
             /\ \E top \in diff : (\A j \in diff : j <= top) /\ a[top] > b[top]

\* a.muln(k) for a small k
BNmuln[a \in BNs, k \in Nat] == CarryPass[[i \in 1..Len(a) |-> a[i] * k], LimbBase]

\* column k of the schoolbook product: the sum of a[i] * b[k + 1 - i]
ConvSum[a \in BNs, b \in BNs, k \in Nat] ==
    Loop(LAMBDA st, i : st + a[i] * b[k + 1 - i], 0,
         IF k + 1 - Len(b) > 1 THEN k + 1 - Len(b) ELSE 1,
         IF k < Len(a) THEN k ELSE Len(a))

BNmul[a \in BNs, b \in BNs] ==
    CarryPass[[k \in 1..(Len(a) + Len(b) - 1) |-> ConvSum[a, b, k]], LimbBase]

\* a.pow(e): the product of e factors a
BNpow[a \in BNs, e \in Nat] == Loop(LAMBDA st, i : BNmul[st, a], <<1>>, 1, e)

\* a.divn(k), the quotient, for a k that divides the limb base: limb i keeps
\* its own quotient and receives the remainder of the limb above it
LimbDivisors == {k \in 1..LimbBase : LimbBase % k = 0}

BNdivn[a \in BNs, k \in LimbDivisors] ==
    Norm[[i \in 1..Len(a) |-> a[i] \div k + (Limb(a, i + 1) % k) * (LimbBase \div k)]]

\* the bytes of a, least significant first, without high zero bytes: the limbs
\* of a, from the most significant down, enter a number held in base 256
BNbytesLE[a \in BNs] ==
    StripHigh[Loop(LAMBDA st, i :
                       CarryPass[[j \in 1..Len(st) |->
                                    st[j] * LimbBase
                                  + (IF j = 1 THEN a[Len(a) + 1 - i] ELSE 0)], 256],
                   <<0>>, 1, Len(a))]

\* the n low bits of a, least significant first: a.testn(i) is BNbits[a, n][i + 1]
BNbits[a \in BNs, n \in Nat] ==
    LET le == BNbytesLE[a]
    IN  After(le, [i \in 1..n |->
                     LET byte == (i - 1) \div 8
                     IN  byte < Len(le) /\ (le[byte + 1] \div 2 ^ ((i - 1) % 8)) % 2 = 1])

\* new BN(bytes, 16, "be"): the big-endian value of a byte array
BNfromBytesBE[bytes \in Seq(Nat)] ==
    Loop(LAMBDA st, i : BNadd[BNmuln[st, 256], <<bytes[i]>>], <<0>>, 1, Len(bytes))

\* a.toArrayLike(Buffer, "be", n): throws when a needs more than n bytes
BNtoArrayLikeBE[a \in BNs, n \in Nat] ==
    LET le == BNbytesLE[a]
    IN  IF Len(le) > n THEN Err("byte array longer than desired length")
        ELSE Ok([i \in 1..n |-> IF n + 1 - i <= Len(le) THEN le[n + 1 - i] ELSE 0])

(***************************************************************************)
(* utils.ts: the compact float codec.                                      *)
(***************************************************************************)
AMOUNT_EXPONENT_BIT_WIDTH == 5
AMOUNT_MANTISSA_BIT_WIDTH == 35
FEE_EXPONENT_BIT_WIDTH == 5
FEE_MANTISSA_BIT_WIDTH == 11


\* the loops of floatToInteger:
\*   for (i = from; i < to; i++) { if (testn(i)) acc = acc.add(pow2); pow2 = pow2.mul(two) }
SumBits(bits, from, to, pow2) ==
    Loop(LAMBDA st, i : [acc |-> IF bits[i + 1] THEN BNadd[st.acc, st.pow2] ELSE st.acc,
                         pow2 |-> BNmul[st.pow2, <<2>>]],
         [acc |-> <<0>>, pow2 |-> pow2], from, to - 1).acc

\* the JavaScript number held by a BN of at most two limbs
SmallOf[a \in BNs] == a[1] + (IF Len(a) > 1 THEN LimbBase * a[2] ELSE 0)

\* floatToInteger with the exponent loop starting at expPow2 = 2
floatToInteger_expPow2(floatBytes, expBits, mantissaBits, expBaseNumber) ==
    IF Len(floatBytes) * 8 # mantissaBits + expBits
    THEN Err("Float unpacking, incorrect input length")
    ELSE LET floatHolder == BNfromBytesBE[floatBytes]
         IN  Bind(BNbits[floatHolder, expBits + mantissaBits], LAMBDA bits :
                 LET expIndex == SumBits(bits, 0, expBits, <<2>>)
                     exponent == BNpow[NatToBN[expBaseNumber], SmallOf[expIndex]]
                     mantissa == SumBits(bits, expBits, expBits + mantissaBits, <<1>>)
                 IN  Ok(BNmul[exponent, mantissa]))

floatToInteger(floatBytes, expBits, mantissaBits, expBaseNumber) ==
    IF Len(floatBytes) * 8 # mantissaBits + expBits
    THEN Err("Float unpacking, incorrect input length")
    ELSE LET floatHolder == BNfromBytesBE[floatBytes]
         IN  Bind(BNbits[floatHolder, expBits + mantissaBits], LAMBDA bits :
                 LET expIndex == SumBits(bits, 0, expBits, <<1>>)
                     exponent == BNpow[NatToBN[expBaseNumber], SmallOf[expIndex]]
                     mantissa == SumBits(bits, expBits, expBits + mantissaBits, <<1>>)
                 IN  Ok(BNmul[exponent, mantissa]))


bitsIntoBytesInBEOrder(bits) ==
    IF Len(bits) % 8 # 0 THEN Err("wrong number of bits to pack")
    ELSE LET nBytes == Len(bits) \div 8
             B(byte, k, w) == IF bits[(byte - 1) * 8 + k + 1] THEN w ELSE 0
         IN  Ok([byte \in 1..nBytes |->
                   B(byte, 0, 128) + B(byte, 1, 64) + B(byte, 2, 32) + B(byte, 3, 16)
                 + B(byte, 4, 8) + B(byte, 5, 4) + B(byte, 6, 2) + B(byte, 7, 1)])


(***************************************************************************)
(* integerToFloat, in the parts its steps are made of.                     *)
(***************************************************************************)
\* max_exponent = new BN(10).pow(2^exp_bits - 1): the base is the literal 10
integerToFloatMaxExponent(exp_bits) == BNpow[<<10>>, 2 ^ exp_bits - 1]

\* max_mantissa = new BN(2).pow(mantissa_bits).subn(1)
integerToFloatMaxMantissa(mantissa_bits) == BNsub[BNpow[<<2>>, mantissa_bits], <<1>>]

\* the bound checked without the exponent's range
integerToFloatTooBig_noExponent(integer, max_mantissa, max_exponent) ==
    BNgt[integer, max_mantissa]

\* integer.gt(max_mantissa.mul(max_exponent))
integerToFloatTooBig(integer, max_mantissa, max_exponent) ==
    BNgt[integer, BNmul[max_mantissa, max_exponent]]

\* the loop's condition: mantissa.gt(max_mantissa)
MantissaTooWide(l, max_mantissa) == BNgt[l.mantissa, max_mantissa]

\* the loop's body: mantissa = mantissa.divn(exp_base); exponent += 1
MantissaRound(l, exp_base) ==
    [mantissa |-> BNdivn[l.mantissa, exp_base], exponent |-> l.exponent + 1]

\* while (mantissa.gt(max_mantissa)) { ... } from exponent = 0, mantissa = integer.
\* A round past the end of the loop changes nothing.  Each round at least halves
\* the mantissa and a limb holds less than 14 bits, which bounds the rounds.
MantissaLoop(integer, max_mantissa, exp_base) ==
    Loop(LAMBDA l, i : IF MantissaTooWide(l, max_mantissa)
                       THEN MantissaRound(l, exp_base) ELSE l,
         [mantissa |-> integer, exponent |-> 0], 1, 14 * Len(integer))

\* the statements after the loop, without the reversal of the packed bytes
integerToFloatEncode_noReverse(l, exp_bits, mantissa_bits) ==
    LET expPart == [i \in 1..exp_bits |-> (l.exponent \div 2 ^ (i - 1)) % 2 # 0]
    IN  Bind(expPart \o BNbits[l.mantissa, mantissa_bits], LAMBDA encoding :
            bitsIntoBytesInBEOrder(Reverse(encoding)))

\* the statements after the loop: the exponent bits, then the mantissa bits,
\* least significant first; reversed, packed into bytes, and the bytes reversed
integerToFloatEncode(l, exp_bits, mantissa_bits) ==
    LET expPart == [i \in 1..exp_bits |-> (l.exponent \div 2 ^ (i - 1)) % 2 # 0]
    IN  Bind(expPart \o BNbits[l.mantissa, mantissa_bits], LAMBDA encoding :
            Bind(bitsIntoBytesInBEOrder(Reverse(encoding)), LAMBDA packed :
                IF packed.ok THEN Ok(Reverse(packed.val)) ELSE packed))

integerToFloat(integer, exp_bits, mantissa_bits, exp_base) ==
    Bind(integerToFloatMaxMantissa(mantissa_bits), LAMBDA max_mantissa :
        IF integerToFloatTooBig(integer, max_mantissa, integerToFloatMaxExponent(exp_bits))
        THEN Err("Integer is too big")
        ELSE Bind(MantissaLoop(integer, max_mantissa, exp_base), LAMBDA l :
                 integerToFloatEncode(l, exp_bits, mantissa_bits)))

\* reverseBits returns a copy of buffer.reverse(); the bytes computed by the
\* map callback are dropped, so the bits inside each byte stay as they are.
reverseBits(buffer) == Reverse(buffer)

\* buffer.reverse() reverses the caller's buffer in place: the contents of the
\* argument after the call.
reverseBitsArgAfter(buffer) == Reverse(buffer)

packAmount(amount) ==
    Bind(integerToFloat(amount, AMOUNT_EXPONENT_BIT_WIDTH, AMOUNT_MANTISSA_BIT_WIDTH, 10),
         LAMBDA f : IF f.ok THEN Ok(reverseBits(f.val)) ELSE f)

packFee(amount) ==
    Bind(integerToFloat(amount, FEE_EXPONENT_BIT_WIDTH, FEE_MANTISSA_BIT_WIDTH, 10),
         LAMBDA f : IF f.ok THEN Ok(reverseBits(f.val)) ELSE f)

closestPackableTransactionAmount(amount) ==
    Bind(packAmount(amount), LAMBDA packedAmount :
        IF packedAmount.ok
        THEN floatToInteger(packedAmount.val, AMOUNT_EXPONENT_BIT_WIDTH,
                            AMOUNT_MANTISSA_BIT_WIDTH, 10)
        ELSE packedAmount)

closestPackableTransactionFee(fee) ==
    Bind(packFee(fee), LAMBDA packedFee :
        IF packedFee.ok
        THEN floatToInteger(packedFee.val, FEE_EXPONENT_BIT_WIDTH,
                            FEE_MANTISSA_BIT_WIDTH, 10)
        ELSE packedFee)

\* packAmountChecked returning the encoding without passing it to reverseBits
packAmountChecked_noReverseBits(amount) ==
    Bind(closestPackableTransactionAmount(amount), LAMBDA closest :
        IF ~closest.ok THEN closest
        ELSE IF closest.val # amount THEN Err("Transaction Amount is not packable")
        ELSE integerToFloat(amount, AMOUNT_EXPONENT_BIT_WIDTH,
                            AMOUNT_MANTISSA_BIT_WIDTH, 10))

packAmountChecked(amount) ==
    Bind(closestPackableTransactionAmount(amount), LAMBDA closest :
        IF ~closest.ok THEN closest
        ELSE IF closest.val # amount THEN Err("Transaction Amount is not packable")
        ELSE packAmount(amount))

packFeeChecked(amount) ==
    Bind(closestPackableTransactionFee(amount), LAMBDA closest :
        IF ~closest.ok THEN closest
        ELSE IF closest.val # amount THEN Err("Fee Amount is not packable")
        ELSE packFee(amount))

(***************************************************************************)
(* Strings and hex.                                                        *)
(***************************************************************************)
HexLower == <<"0", "1", "2", "3", "4", "5", "6", "7",
              "8", "9", "a", "b", "c", "d", "e", "f">>
HexUpper == <<"0", "1", "2", "3", "4", "5", "6", "7",
              "8", "9", "A", "B", "C", "D", "E", "F">>

\* the value of a hex character, -1 for any other character
HexVal(c) ==
    IF \E i \in 1..16 : HexLower[i] = c \/ HexUpper[i] = c
    THEN (CHOOSE i \in 1..16 : HexLower[i] = c \/ HexUpper[i] = c) - 1
    ELSE -1

\* Buffer.from(str, "hex"): decodes pairs of characters and stops at the first
\* pair that is not hex; a trailing single character is dropped
BufferFromHex(str) ==
    LET pairs == Len(str) \div 2
        bad == {i \in 1..pairs : HexVal(str[2 * i - 1]) < 0 \/ HexVal(str[2 * i]) < 0}
        n == IF bad = {} THEN pairs
             ELSE (CHOOSE i \in bad : \A j \in bad : i <= j) - 1
    IN  [i \in 1..n |-> 16 * HexVal(str[2 * i - 1]) + HexVal(str[2 * i])]

\* buffer.toString("hex")
BufferToHex(bytes) ==
    [i \in 1..(2 * Len(bytes)) |->
        IF i % 2 = 1 THEN HexLower[bytes[(i + 1) \div 2] \div 16 + 1]
        ELSE HexLower[(bytes[i \div 2] % 16) + 1]]

startsWith(str, prefix) ==
    Len(str) >= Len(prefix) /\ SubSeq(str, 1, Len(prefix)) = prefix

substr(str, from) == SubSeq(str, from + 1, Len(str))

Prefix0x == <<"0", "x">>
PrefixSync == <<"s", "y", "n", "c", ":">>

(***************************************************************************)
(* signer.ts: the field serializers.                                       *)
(***************************************************************************)
MAX_NUMBER_OF_TOKENS == 4096
MAX_NUMBER_OF_ACCOUNTS == 2 ^ 24

\* serializeAddress stripping four characters of a sync address
serializeAddress_substr4(address) ==
    IF ~startsWith(address, Prefix0x) /\ ~startsWith(address, PrefixSync)
    THEN Err("ETH address must start with '0x' and Sync address start with 'sync:'")
    ELSE LET prefixlessAddress == IF startsWith(address, Prefix0x)
                                  THEN substr(address, 2) ELSE substr(address, 4)
             addressBytes == BufferFromHex(prefixlessAddress)
         IN  IF Len(addressBytes) # 20 THEN Err("Address must be 20 bytes long")
             ELSE Ok(addressBytes)

serializeAddress(address) ==
    IF ~startsWith(address, Prefix0x) /\ ~startsWith(address, PrefixSync)
    THEN Err("ETH address must start with '0x' and Sync address start with 'sync:'")
    ELSE LET prefixlessAddress == IF startsWith(address, Prefix0x)
                                  THEN substr(address, 2) ELSE substr(address, 5)
             addressBytes == BufferFromHex(prefixlessAddress)
         IN  IF Len(addressBytes) # 20 THEN Err("Address must be 20 bytes long")
             ELSE Ok(addressBytes)

\* the n big-endian bytes of a number below 2^31
UIntBE(value, n) == [i \in 1..n |-> (value \div 256 ^ (n - i)) % 256]

serializeAccountId(accountId) ==
    IF accountId < 0 THEN Err("Negative account id")
    ELSE IF accountId >= MAX_NUMBER_OF_ACCOUNTS THEN Err("AccountId is too big")
    ELSE Ok(SubSeq(UIntBE(accountId, 4), 2, 4))

\* serializeTokenId comparing with > instead of >=
serializeTokenId_offByOne(tokenId) ==
    IF tokenId < 0 THEN Err("Negative tokenId")
    ELSE IF tokenId > MAX_NUMBER_OF_TOKENS THEN Err("TokenId is too big")
    ELSE Ok(UIntBE(tokenId, 2))

serializeTokenId(tokenId) ==
    IF tokenId < 0 THEN Err("Negative tokenId")
    ELSE IF tokenId >= MAX_NUMBER_OF_TOKENS THEN Err("TokenId is too big")
    ELSE Ok(UIntBE(tokenId, 2))

serializeAmountPacked(amount) == packAmountChecked(amount)

serializeAmountFull(amount) == BNtoArrayLikeBE[amount, 16]

serializeFeePacked(fee) == packFeeChecked(fee)

\* A nonce is a JavaScript number that may exceed 2^31: [neg, mag] with mag a BN.
\* buff.writeUInt32BE throws a RangeError for a value above 2^32 - 1.
serializeNonce(nonce) ==
    IF nonce.neg THEN Err("Negative nonce")
    ELSE IF BNgt[nonce.mag, BNsub[BNpow[<<2>>, 32], <<1>>]]
    THEN Err("ERR_OUT_OF_RANGE")
    ELSE BNtoArrayLikeBE[nonce.mag, 4]

syncToLegacyAddress(address) ==
    IF ~startsWith(address, PrefixSync)
    THEN Err("Sync address must start with 'sync:'")
    ELSE Ok(Prefix0x \o substr(address, 5))

(***************************************************************************)
(* The Signer.  The curve primitives live outside these sources: the       *)
(* address derived from a key is some 20 bytes, and a signature is an      *)
(* opaque function of the key and of the message.                          *)
(***************************************************************************)
PrivateKeys == {0, 1}

pubkeyToAddress(pk) == [i \in 1..20 |-> (pk * (11 * i + 3)) % 256]

signTransactionBytes(pk, msg) == [key |-> pk, message |-> msg]

\* Signer.address()
address(pk) == PrefixSync \o BufferToHex(pubkeyToAddress(pk))

\* one statement `const local = ser(arg)` of a sign method
Stmt(l, s, a) == [local |-> l, ser |-> s, arg |-> a]

signSyncTransferBody ==
    << Stmt("from", "serializeAddress", "from"),
       Stmt("to", "serializeAddress", "to"),
       Stmt("token", "serializeTokenId", "tokenId"),
       Stmt("amount", "serializeAmountPacked", "amount"),
       Stmt("fee", "serializeFeePacked", "fee"),
       Stmt("nonce", "serializeNonce", "nonce") >>

\* the concat list with token and amount exchanged
signSyncTransferConcat_swapped ==
    <<"type", "from", "to", "amount", "token", "fee", "nonce">>

signSyncTransferConcat == <<"type", "from", "to", "token", "amount", "fee", "nonce">>

signSyncWithdrawBody ==
    << Stmt("accountBytes", "serializeAddress", "from"),
       Stmt("ethAddressBytes", "serializeAddress", "ethAddress"),
       Stmt("tokenIdBytes", "serializeTokenId", "tokenId"),
       Stmt("amountBytes", "serializeAmountFull", "amount"),
       Stmt("feeBytes", "serializeFeePacked", "fee"),
       Stmt("nonceBytes", "serializeNonce", "nonce") >>

signSyncWithdrawConcat ==
    <<"typeBytes", "accountBytes", "ethAddressBytes", "tokenIdBytes",
      "amountBytes", "feeBytes", "nonceBytes">>

signSyncCloseAccountBody ==
    << Stmt("account", "serializeAddress", "this.address()"),
       Stmt("nonce", "serializeNonce", "nonce") >>

signSyncCloseAccountConcat == <<"type", "account", "nonce">>

SignOps == {"signSyncTransfer", "signSyncWithdraw", "signSyncCloseAccount"}

Body(o) ==
    CASE o = "signSyncTransfer" -> signSyncTransferBody
      [] o = "signSyncWithdraw" -> signSyncWithdrawBody
      [] o = "signSyncCloseAccount" -> signSyncCloseAccountBody

ConcatOrder(o) ==
    CASE o = "signSyncTransfer" -> signSyncTransferConcat
      [] o = "signSyncWithdraw" -> signSyncWithdrawConcat
      [] o = "signSyncCloseAccount" -> signSyncCloseAccountConcat

\* the first statement of each method: the buffer holding the type tag
TypeLocal(o) ==
    CASE o = "signSyncTransfer" -> ("type" :> <<5>>)
      [] o = "signSyncWithdraw" -> ("typeBytes" :> <<3>>)
      [] o = "signSyncCloseAccount" -> ("type" :> <<4>>)

Serialize(ser, value) ==
    CASE ser = "serializeAddress" -> serializeAddress(value)
      [] ser = "serializeTokenId" -> serializeTokenId(value)
      [] ser = "serializeAmountPacked" -> serializeAmountPacked(value)
      [] ser = "serializeAmountFull" -> serializeAmountFull(value)
      [] ser = "serializeFeePacked" -> serializeFeePacked(value)
      [] ser = "serializeNonce" -> serializeNonce(value)

ArgValue(a, name, pk) == IF name = "this.address()" THEN address(pk) ELSE a[name]

\* Buffer.concat(list)
BufferConcat(list) == Loop(LAMBDA st, i : st \o list[i], <<>>, 1, Len(list))

\* the object a sign method returns
SignedTransaction(o, a, pk, signature) ==
    CASE o = "signSyncTransfer" ->
           [type |-> "Transfer", from |-> a.from, to |-> a.to, token |-> a.tokenId,
            amount |-> a.amount, fee |-> a.fee, nonce |-> a.nonce,
            signature |-> signature]
      [] o = "signSyncWithdraw" ->
           [type |-> "Withdraw", from |-> a.from, to |-> a.ethAddress,
            token |-> a.tokenId, amount |-> a.amount, fee |-> a.fee,
            nonce |-> a.nonce, signature |-> signature]
      [] o = "signSyncCloseAccount" ->
           [type |-> "Close", account |-> address(pk), nonce |-> a.nonce,
            signature |-> signature]


(***************************************************************************)
(* The inputs of the calls.                                                *)
(***************************************************************************)
MaxMantissa(mantissaBits) == BNsub[BNpow[<<2>>, mantissaBits], <<1>>]
MaxEncodable(mantissaBits) == BNmul[MaxMantissa(mantissaBits), BNpow[<<10>>, 31]]

ValueBases ==
    { <<0>>,
      NatToBN[2040],
      NatToBN[2046],
      NatToBN[20468],
      NatToBN[1000000000],
      BNsub[MaxMantissa(AMOUNT_MANTISSA_BIT_WIDTH), <<3>>],
      BNsub[MaxEncodable(FEE_MANTISSA_BIT_WIDTH), <<3>>],
      BNsub[MaxEncodable(AMOUNT_MANTISSA_BIT_WIDTH), <<3>>] }

InputValues == {BNadd[b, NatToBN[k]] : b \in ValueBases, k \in 0..Spread}

Widths == { <<AMOUNT_EXPONENT_BIT_WIDTH, AMOUNT_MANTISSA_BIT_WIDTH>>,
            <<FEE_EXPONENT_BIT_WIDTH, FEE_MANTISSA_BIT_WIDTH>> }

InputBuffers ==
    { <<>>, <<7>>, <<1, 2, 3>> }
    \cup {<<(17 * k) % 256, k>> : k \in 0..Spread}
    \cup {<<k, (29 * k) % 256, 3, (k * k) % 256, 255 - k>> : k \in 0..Spread}

InputBits ==
    {BNbits[NatToBN[37 * k], n] : k \in 0..Spread, n \in {7, 8, 16}}

PayloadStyles == {"zeros", "lower", "upper", "badtail", "badhead"}

Payload(style, n) ==
    [i \in 1..n |->
        CASE style = "zeros" -> "0"
          [] style = "lower" -> HexLower[((7 * i) % 16) + 1]
          [] style = "upper" -> HexUpper[((7 * i) % 16) + 1]
          [] style = "badtail" -> IF i = n THEN "z" ELSE HexLower[((7 * i) % 16) + 1]
          [] style = "badhead" -> IF i = 1 THEN "g" ELSE HexLower[((7 * i) % 16) + 1]]

InputPrefixes == {Prefix0x, PrefixSync, <<>>, <<"0", "X">>, <<"s", "y", "n", "c">>}

InputAddresses ==
    {pre \o Payload(st, n) : pre \in InputPrefixes, st \in PayloadStyles,
                             n \in (40 - LenSlack)..(40 + LenSlack)}

InputIds ==
    {-1, 0, 1, 255, 256}
    \cup {MAX_NUMBER_OF_TOKENS - 1 + k : k \in 0..LenSlack}
    \cup {MAX_NUMBER_OF_ACCOUNTS - 1 + k : k \in 0..LenSlack}

Num(n) == [neg |-> n < 0, mag |-> NatToBN[IF n < 0 THEN -n ELSE n]]

InputNonces ==
    {Num(n) : n \in (-LenSlack)..LenSlack}
    \cup {[neg |-> FALSE, mag |-> BNadd[BNsub[BNpow[<<2>>, 32], <<LenSlack>>], NatToBN[k]]]
            : k \in 0..(2 * LenSlack)}
    \cup {Num(16909060)}

SignFrom == {PrefixSync \o Payload("lower", 40), Payload("lower", 40)}
SignTo == {Prefix0x \o Payload("upper", 40), Prefix0x \o Payload("lower", 38)}
SignTokenIds == {MAX_NUMBER_OF_TOKENS - 1, MAX_NUMBER_OF_TOKENS}
SignAmounts == { NatToBN[1000000003],
                 BNpow[<<2>>, AMOUNT_MANTISSA_BIT_WIDTH],
                 BNadd[MaxEncodable(AMOUNT_MANTISSA_BIT_WIDTH), <<1>>] }
SignFees == {NatToBN[2040], NatToBN[2049]}
SignNonces == {Num(16909060), Num(-1), Num(0),
               [neg |-> FALSE, mag |-> BNpow[<<2>>, 32]]}

\* arguments every serializer accepts
ValidTransfer ==
    [from |-> PrefixSync \o Payload("lower", 40), to |-> Prefix0x \o Payload("upper", 40),
     tokenId |-> MAX_NUMBER_OF_TOKENS - 1, amount |-> NatToBN[1000000003],
     fee |-> NatToBN[2040], nonce |-> Num(16909060)]

ValidWithdraw ==
    [from |-> PrefixSync \o Payload("lower", 40),
     ethAddress |-> Prefix0x \o Payload("upper", 40),
     tokenId |-> MAX_NUMBER_OF_TOKENS - 1, amount |-> NatToBN[1000000003],
     fee |-> NatToBN[2040], nonce |-> Num(16909060)]

\* the argument objects that differ from valid in at most two fields
Near(valid, S) == {a \in S : Cardinality({f \in DOMAIN a : a[f] # valid[f]}) <= 2}

TransferArgs ==
    Near(ValidTransfer, [from : SignFrom, to : SignTo, tokenId : SignTokenIds,
                         amount : SignAmounts, fee : SignFees, nonce : SignNonces])

WithdrawArgs ==
    Near(ValidWithdraw, [from : SignFrom, ethAddress : SignTo, tokenId : SignTokenIds,
                         amount : SignAmounts, fee : SignFees, nonce : SignNonces])

CloseArgs == [nonce : InputNonces]

Invocation(o, a) == [op |-> o, args |-> a]

Invocations ==
    {Invocation("integerToFloat",
                [integer |-> v, exp_bits |-> w[1], mantissa_bits |-> w[2], exp_base |-> 10])
        : v \in InputValues, w \in Widths}
    \cup {Invocation("floatToInteger",
                     [floatBytes |-> b, expBits |-> w[1], mantissaBits |-> w[2],
                      expBaseNumber |-> 10])
            : b \in InputBuffers, w \in Widths}
    \cup {Invocation("bitsIntoBytesInBEOrder", [bits |-> bits]) : bits \in InputBits}
    \cup {Invocation("reverseBits", [buffer |-> b]) : b \in InputBuffers}
    \cup {Invocation(o, [amount |-> v])
            : o \in {"packAmountChecked", "packFeeChecked",
                     "closestPackableTransactionAmount"},
              v \in InputValues}
    \cup {Invocation("closestPackableTransactionFee", [fee |-> v]) : v \in InputValues}
    \cup {Invocation(o, [address |-> s])
            : o \in {"serializeAddress", "syncToLegacyAddress"}, s \in InputAddresses}
    \cup {Invocation("serializeAccountId", [accountId |-> n]) : n \in InputIds}
    \cup {Invocation("serializeTokenId", [tokenId |-> n]) : n \in InputIds}
    \cup {Invocation("serializeNonce", [nonce |-> n]) : n \in InputNonces}
    \cup {Invocation("signSyncTransfer", a) : a \in TransferArgs}
    \cup {Invocation("signSyncWithdraw", a) : a \in WithdrawArgs}
    \cup {Invocation("signSyncCloseAccount", a) : a \in CloseArgs}

(***************************************************************************)
(* State.                                                                  *)
(*   privateKey : the key of the Signer (readonly)                         *)
(*   pc         : "idle", "called" once a function was invoked and before  *)
(*                it runs, "loop" inside integerToFloat, or the position   *)
(*                inside a running sign method                             *)
(*   op, args   : the last call and the arguments it was given             *)
(*   argAfter   : the contents of the argument objects after the call      *)
(*   locals     : the local variables of the running call                  *)
(*   msgBytes   : the concatenated message of the running sign method      *)
(*   signCalls  : the messages handed to signTransactionBytes by this call *)
(*   result     : what the call returned or threw                          *)
(***************************************************************************)
VARIABLES privateKey, pc, op, args, argAfter, locals, msgBytes, signCalls, result

vars == <<privateKey, pc, op, args, argAfter, locals, msgBytes, signCalls, result>>

NoResult == [ok |-> FALSE, val |-> <<>>, err |-> ""]
NoLocals == [n \in {} |-> <<>>]

Init ==
    /\ privateKey \in PrivateKeys
    /\ pc = "idle"
    /\ op = "new Signer"
    /\ args = <<>>
    /\ argAfter = <<>>
    /\ locals = NoLocals
    /\ msgBytes = <<>>
    /\ signCalls = <<>>
    /\ result = NoResult


(***************************************************************************)
(* A caller invokes one of the exported functions or one of the methods of *)
(* the Signer with some arguments.                                         *)
(***************************************************************************)
Invoke ==
    /\ pc = "idle"
    /\ \E c \in Invocations :
          /\ op' = c.op
          /\ args' = c.args
          /\ argAfter' = c.args
    /\ pc' = "called"
    /\ locals' = NoLocals
    /\ msgBytes' = <<>>
    /\ signCalls' = <<>>
    /\ result' = NoResult
    /\ UNCHANGED privateKey

(***************************************************************************)
(* The functions that run to their end in one step.  argAfter is the       *)
(* argument object as the function leaves it.                              *)
(***************************************************************************)
Call_floatToInteger ==
    /\ pc = "called"
    /\ op = "floatToInteger"
    /\ result' = floatToInteger(args.floatBytes, args.expBits, args.mantissaBits,
                              args.expBaseNumber)
    /\ pc' = "idle"
    /\ UNCHANGED <<privateKey, op, args, argAfter, locals, msgBytes, signCalls>>

Call_bitsIntoBytesInBEOrder ==
    /\ pc = "called"
    /\ op = "bitsIntoBytesInBEOrder"
    /\ result' = bitsIntoBytesInBEOrder(args.bits)
    /\ pc' = "idle"
    /\ UNCHANGED <<privateKey, op, args, argAfter, locals, msgBytes, signCalls>>

Call_reverseBits ==
    /\ pc = "called"
    /\ op = "reverseBits"
    /\ result' = Ok(reverseBits(args.buffer))
    /\ argAfter' = [buffer |-> reverseBitsArgAfter(args.buffer)]
    /\ pc' = "idle"
    /\ UNCHANGED <<privateKey, op, args, locals, msgBytes, signCalls>>

Call_packAmountChecked ==
    /\ pc = "called"
    /\ op = "packAmountChecked"
    /\ result' = packAmountChecked(args.amount)
    /\ pc' = "idle"
    /\ UNCHANGED <<privateKey, op, args, argAfter, locals, msgBytes, signCalls>>

Call_packFeeChecked ==
    /\ pc = "called"
    /\ op = "packFeeChecked"
    /\ result' = packFeeChecked(args.amount)
    /\ pc' = "idle"
    /\ UNCHANGED <<privateKey, op, args, argAfter, locals, msgBytes, signCalls>>

Call_closestPackableTransactionAmount ==
    /\ pc = "called"
    /\ op = "closestPackableTransactionAmount"
    /\ result' = closestPackableTransactionAmount(args.amount)
    /\ pc' = "idle"
    /\ UNCHANGED <<privateKey, op, args, argAfter, locals, msgBytes, signCalls>>

Call_closestPackableTransactionFee ==
    /\ pc = "called"
    /\ op = "closestPackableTransactionFee"
    /\ result' = closestPackableTransactionFee(args.fee)
    /\ pc' = "idle"
    /\ UNCHANGED <<privateKey, op, args, argAfter, locals, msgBytes, signCalls>>

Call_serializeAddress ==
    /\ pc = "called"
    /\ op = "serializeAddress"
    /\ result' = serializeAddress(args.address)
    /\ pc' = "idle"
    /\ UNCHANGED <<privateKey, op, args, argAfter, locals, msgBytes, signCalls>>

Call_serializeAccountId ==
    /\ pc = "called"
    /\ op = "serializeAccountId"
    /\ result' = serializeAccountId(args.accountId)
    /\ pc' = "idle"
    /\ UNCHANGED <<privateKey, op, args, argAfter, locals, msgBytes, signCalls>>

Call_serializeTokenId ==
    /\ pc = "called"
    /\ op = "serializeTokenId"
    /\ result' = serializeTokenId(args.tokenId)
    /\ pc' = "idle"
    /\ UNCHANGED <<privateKey, op, args, argAfter, locals, msgBytes, signCalls>>

Call_serializeNonce ==
    /\ pc = "called"
    /\ op = "serializeNonce"
    /\ result' = serializeNonce(args.nonce)
    /\ pc' = "idle"
    /\ UNCHANGED <<privateKey, op, args, argAfter, locals, msgBytes, signCalls>>

Call_syncToLegacyAddress ==
    /\ pc = "called"
    /\ op = "syncToLegacyAddress"
    /\ result' = syncToLegacyAddress(args.address)
    /\ pc' = "idle"
    /\ UNCHANGED <<privateKey, op, args, argAfter, locals, msgBytes, signCalls>>

(***************************************************************************)
(* integerToFloat runs its loop one round per step.  Its locals are        *)
(* max_exponent, max_mantissa, exponent and mantissa; they stay as the     *)
(* function left them when it returns.                                     *)
(***************************************************************************)
\* the statements up to the loop: a value that is too big throws
Call_integerToFloat ==
    /\ pc = "called"
    /\ op = "integerToFloat"
    /\ \E max_exponent \in {integerToFloatMaxExponent(args.exp_bits)},
          max_mantissa \in {integerToFloatMaxMantissa(args.mantissa_bits)} :
          /\ locals' = [max_exponent |-> max_exponent, max_mantissa |-> max_mantissa,
                        exponent |-> 0, mantissa |-> args.integer]
          /\ IF integerToFloatTooBig(args.integer, max_mantissa, max_exponent)
             THEN /\ pc' = "idle"
                  /\ result' = Err("Integer is too big")
             ELSE /\ pc' = "loop"
                  /\ UNCHANGED result
    /\ UNCHANGED <<privateKey, op, args, argAfter, msgBytes, signCalls>>

\* one round of while (mantissa.gt(max_mantissa))
integerToFloatLoop ==
    /\ pc = "loop"
    /\ MantissaTooWide(locals, locals.max_mantissa)
    /\ locals' = [locals EXCEPT !.mantissa = MantissaRound(locals, args.exp_base).mantissa,
                                !.exponent = MantissaRound(locals, args.exp_base).exponent]
    /\ UNCHANGED <<privateKey, pc, op, args, argAfter, msgBytes, signCalls, result>>

\* the loop is left; the encoding is built and returned
integerToFloatReturn ==
    /\ pc = "loop"
    /\ ~MantissaTooWide(locals, locals.max_mantissa)
    /\ result' = integerToFloatEncode(locals, args.exp_bits, args.mantissa_bits)
    /\ pc' = "idle"
    /\ UNCHANGED <<privateKey, op, args, argAfter, locals, msgBytes, signCalls>>

(***************************************************************************)
(* The sign methods.  On entry the buffer holding the type tag is built;   *)
(* the statements that follow are the steps SerializeField, Concat, Sign   *)
(* and Return.                                                             *)
(***************************************************************************)
signSyncTransfer ==
    /\ pc = "called"
    /\ op = "signSyncTransfer"
    /\ locals' = TypeLocal("signSyncTransfer")
    /\ pc' = "serialize"
    /\ UNCHANGED <<privateKey, op, args, argAfter, msgBytes, signCalls, result>>

signSyncWithdraw ==
    /\ pc = "called"
    /\ op = "signSyncWithdraw"
    /\ locals' = TypeLocal("signSyncWithdraw")
    /\ pc' = "serialize"
    /\ UNCHANGED <<privateKey, op, args, argAfter, msgBytes, signCalls, result>>

signSyncCloseAccount ==
    /\ pc = "called"
    /\ op = "signSyncCloseAccount"
    /\ locals' = TypeLocal("signSyncCloseAccount")
    /\ pc' = "serialize"
    /\ UNCHANGED <<privateKey, op, args, argAfter, msgBytes, signCalls, result>>

\* the statement `const local = serialize...(arg)` the call has reached
NextStmt == Body(op)[Cardinality(DOMAIN locals)]

\* SerializeField swallowing the error of a serializer and going on
SerializeField_noAbort ==
    /\ pc = "serialize"
    /\ \E r \in {Serialize(NextStmt.ser, ArgValue(args, NextStmt.arg, privateKey))} :
          /\ locals' = locals @@ (NextStmt.local :> r.val)
          /\ pc' = IF Cardinality(DOMAIN locals) = Len(Body(op))
                   THEN "concat" ELSE "serialize"
          /\ UNCHANGED result
    /\ UNCHANGED <<privateKey, op, args, argAfter, msgBytes, signCalls>>

\* the next `const local = serialize...(arg)`: a throw ends the call
SerializeField ==
    /\ pc = "serialize"
    /\ \E r \in {Serialize(NextStmt.ser, ArgValue(args, NextStmt.arg, privateKey))} :
          IF r.ok
          THEN /\ locals' = locals @@ (NextStmt.local :> r.val)
               /\ pc' = IF Cardinality(DOMAIN locals) = Len(Body(op))
                        THEN "concat" ELSE "serialize"
               /\ UNCHANGED result
          ELSE /\ pc' = "idle"
               /\ result' = r
               /\ UNCHANGED locals
    /\ UNCHANGED <<privateKey, op, args, argAfter, msgBytes, signCalls>>

\* const msgBytes = Buffer.concat([...])
Concat ==
    /\ pc = "concat"
    /\ msgBytes' = BufferConcat([i \in 1..Len(ConcatOrder(op)) |-> locals[ConcatOrder(op)[i]]])
    /\ pc' = "sign"
    /\ UNCHANGED <<privateKey, op, args, argAfter, locals, signCalls, result>>

\* const signature = signTransactionBytes(this.privateKey, msgBytes)
Sign ==
    /\ pc = "sign"
    /\ signCalls' = Append(signCalls, msgBytes)
    /\ pc' = "return"
    /\ UNCHANGED <<privateKey, op, args, argAfter, locals, msgBytes, result>>

\* return { type, ..., signature }
Return ==
    /\ pc = "return"
    /\ result' = Ok(SignedTransaction(op, args, privateKey,
                                      signTransactionBytes(privateKey, msgBytes)))
    /\ pc' = "idle"
    /\ UNCHANGED <<privateKey, op, args, argAfter, locals, msgBytes, signCalls>>

Next ==
    \/ Invoke
    \/ Call_integerToFloat
    \/ integerToFloatLoop
    \/ integerToFloatReturn
    \/ Call_floatToInteger
    \/ Call_bitsIntoBytesInBEOrder
    \/ Call_reverseBits
    \/ Call_packAmountChecked
    \/ Call_packFeeChecked
    \/ Call_closestPackableTransactionAmount
    \/ Call_closestPackableTransactionFee
    \/ Call_serializeAddress
    \/ Call_serializeAccountId
    \/ Call_serializeTokenId
    \/ Call_serializeNonce
    \/ Call_syncToLegacyAddress
    \/ signSyncTransfer
    \/ signSyncWithdraw
    \/ signSyncCloseAccount
    \/ SerializeField
    \/ Concat
    \/ Sign
    \/ Return

Spec == Init /\ [][Next]_vars

\* the loop of integerToFloat is not suspended forever
FairSpec == Spec /\ WF_vars(integerToFloatLoop) /\ WF_vars(integerToFloatReturn)
(***************************************************************************)
(* Arithmetic used to state the properties.                                *)
(***************************************************************************)
\* floor(v / 10^e)
DivPow10(v, e) == Loop(LAMBDA st, i : BNdivn[st, 10], v, 1, e)

BNle(a, b) == ~BNgt[a, b]

AbsDiff(a, b) == IF BNgt[a, b] THEN BNsub[a, b] ELSE BNsub[b, a]

MaxExponent == 2 ^ 5 - 1

\* v = m * 10^e for a mantissa m of at most mantissaBits bits and some e <= 31
Representable(v, mantissaBits) ==
    \E e \in 0..MaxExponent :
        Bind(DivPow10(v, e), LAMBDA m :
            /\ BNle(m, MaxMantissa(mantissaBits))
            /\ BNmul[m, BNpow[<<10>>, e]] = v)

\* the smallest exponent for which the mantissa of v fits
SmallestExponent(v, mantissaBits) ==
    CHOOSE e \in 0..MaxExponent :
        /\ BNle(DivPow10(v, e), MaxMantissa(mantissaBits))
        /\ \A f \in 0..(e - 1) : BNgt[DivPow10(v, f), MaxMantissa(mantissaBits)]

\* the big-endian bytes of N = mantissa * 2^expBits + exponent
LayoutBytes(v, expBits, mantissaBits) ==
    Bind(SmallestExponent(v, mantissaBits), LAMBDA e :
        LET N == BNadd[BNmuln[DivPow10(v, e), 2 ^ expBits], NatToBN[e]]
        IN  BNtoArrayLikeBE[N, (expBits + mantissaBits) \div 8].val)

\* the 20 bytes written as the last 40 characters of an address
PayloadBytes(s) ==
    [i \in 1..20 |-> 16 * HexVal(s[Len(s) - 40 + 2 * i - 1]) + HexVal(s[Len(s) - 40 + 2 * i])]

(***************************************************************************)
(* C1: the message a successful sign call hands to the signing primitive   *)
(* is the type tag followed by the fields in the fixed order and widths:   *)
(* Transfer 5.from.to.token.amount(5).fee(2).nonce(4) = 54 bytes, Withdraw *)
(* 3.from.ethAddress.token.amount(16).fee(2).nonce(4) = 65 bytes,          *)
(* CloseAccount 4.account.nonce(4) = 25 bytes.                             *)
(***************************************************************************)
C1_MessageLayout ==
    (op \in SignOps /\ signCalls # <<>>) =>
        LET m == signCalls[1]
        IN  /\ Len(signCalls) = 1
            /\ op = "signSyncTransfer" =>
                 /\ Len(m) = 54
                 /\ m[1] = 5
                 /\ SubSeq(m, 2, 21) = PayloadBytes(args.from)
                 /\ SubSeq(m, 22, 41) = PayloadBytes(args.to)
                 /\ SubSeq(m, 42, 43) = <<args.tokenId \div 256, args.tokenId % 256>>
                 /\ SubSeq(m, 44, 48) = LayoutBytes(args.amount, 5, 35)
                 /\ SubSeq(m, 49, 50) = LayoutBytes(args.fee, 5, 11)
                 /\ BNfromBytesBE[SubSeq(m, 51, 54)] = args.nonce.mag
            /\ op = "signSyncWithdraw" =>
                 /\ Len(m) = 65
                 /\ m[1] = 3
                 /\ SubSeq(m, 2, 21) = PayloadBytes(args.from)
                 /\ SubSeq(m, 22, 41) = PayloadBytes(args.ethAddress)
                 /\ SubSeq(m, 42, 43) = <<args.tokenId \div 256, args.tokenId % 256>>
                 /\ BNfromBytesBE[SubSeq(m, 44, 59)] = args.amount
                 /\ SubSeq(m, 60, 61) = LayoutBytes(args.fee, 5, 11)
                 /\ BNfromBytesBE[SubSeq(m, 62, 65)] = args.nonce.mag
            /\ op = "signSyncCloseAccount" =>
                 /\ Len(m) = 25
                 /\ m[1] = 4
                 /\ SubSeq(m, 2, 21) = pubkeyToAddress(privateKey)
                 /\ BNfromBytesBE[SubSeq(m, 22, 25)] = args.nonce.mag

\* a Transfer that was signed and returned, with a nonce that fills several bytes
C1_Witness ==
    /\ op = "signSyncTransfer"
    /\ pc = "idle"
    /\ result.ok
    /\ Len(signCalls) = 1
    /\ SubSeq(signCalls[1], 51, 54) = <<1, 2, 3, 4>>

C3_PackCheckedIff ==
    /\ (pc = "idle" /\ op = "packAmountChecked") =>
          LET v == args.amount
              c == closestPackableTransactionAmount(v)
              inRange == BNle(v, MaxEncodable(AMOUNT_MANTISSA_BIT_WIDTH))
          IN  /\ result.ok <=> (c.ok /\ c.val = v)
              /\ (inRange /\ ~(c.ok /\ c.val = v)) =>
                     result = Err("Transaction Amount is not packable")
              /\ ~inRange => result = Err("Integer is too big")
              /\ v = NatToBN[1000000000] => result.ok
              /\ v = NatToBN[1000000003] =>
                     result = Err("Transaction Amount is not packable")
    /\ (pc = "idle" /\ op = "packFeeChecked") =>
          LET v == args.amount
              c == closestPackableTransactionFee(v)
              inRange == BNle(v, MaxEncodable(FEE_MANTISSA_BIT_WIDTH))
          IN  /\ result.ok <=> (c.ok /\ c.val = v)
              /\ (inRange /\ ~(c.ok /\ c.val = v)) =>
                     result = Err("Fee Amount is not packable")
              /\ ~inRange => result = Err("Integer is too big")

(***************************************************************************)
(* C4 as stated: floatToInteger inverts integerToFloat directly, for every *)
(* exactly representable v of both parameterizations.                      *)
(***************************************************************************)
C4_DirectRoundTrip ==
    (op = "integerToFloat" /\ result.ok
        /\ Representable(args.integer, args.mantissa_bits)) =>
        floatToInteger(result.val, args.exp_bits, args.mantissa_bits, 10)
            = Ok(args.integer)

(***************************************************************************)
(* C4 amended: floatToInteger inverts integerToFloat once the byte order   *)
(* of the encoding is reversed (reverseBits), and the closestPackable      *)
(* functions, which decode the reversed encoding, return every exactly     *)
(* representable v unchanged.                                              *)
(***************************************************************************)
C4_RoundTripAfterByteReversal ==
    /\ (op = "integerToFloat" /\ result.ok
          /\ Representable(args.integer, args.mantissa_bits)) =>
          floatToInteger(reverseBits(result.val), args.exp_bits,
                         args.mantissa_bits, 10) = Ok(args.integer)
    /\ (op = "closestPackableTransactionAmount" /\ result.ok
          /\ Representable(args.amount, AMOUNT_MANTISSA_BIT_WIDTH)) =>
          result.val = args.amount
    /\ (op = "closestPackableTransactionFee" /\ result.ok
          /\ Representable(args.fee, FEE_MANTISSA_BIT_WIDTH)) =>
          result.val = args.fee

\* integerToFloat(2040, 5, 11, 10) returned the bytes 00 FF, which read back
\* as they are do not give 2040
C4_Witness ==
    /\ op = "integerToFloat"
    /\ args.integer = NatToBN[2040]
    /\ args.mantissa_bits = FEE_MANTISSA_BIT_WIDTH
    /\ Representable(args.integer, args.mantissa_bits)
    /\ result.ok
    /\ result.val = <<0, 255>>

(***************************************************************************)
(* C5: closestPackableTransactionAmount / Fee return the packable value    *)
(* closest to v: no packable p of the same kind is nearer to v than the    *)
(* result.                                                                 *)
(***************************************************************************)
PackableAmounts == {p \in InputValues : Representable(p, AMOUNT_MANTISSA_BIT_WIDTH)}
PackableFees == {p \in InputValues : Representable(p, FEE_MANTISSA_BIT_WIDTH)}

\* C5: no packable value is nearer to v than the value closestPackable returns
C5_Closest ==
    /\ (op = "closestPackableTransactionAmount" /\ result.ok) =>
          \A p \in PackableAmounts :
              BNle(AbsDiff(result.val, args.amount), AbsDiff(p, args.amount))
    /\ (op = "closestPackableTransactionFee" /\ result.ok) =>
          \A p \in PackableFees :
              BNle(AbsDiff(result.val, args.fee), AbsDiff(p, args.fee))

(***************************************************************************)
(* C6: closestPackableTransactionAmount / Fee are idempotent, also when    *)
(* re-encoding the result picks a smaller exponent.                        *)
(***************************************************************************)
C6_Idempotent ==
    /\ (op = "closestPackableTransactionAmount" /\ result.ok) =>
          closestPackableTransactionAmount(result.val) = result
    /\ (op = "closestPackableTransactionFee" /\ result.ok) =>
          closestPackableTransactionFee(result.val) = result

\* closestPackableTransactionFee(2049) = 2040: 2049 is encoded with exponent 1,
\* 2040 with exponent 0
C6_Witness ==
    /\ op = "closestPackableTransactionFee"
    /\ args.fee = NatToBN[2049]
    /\ result = Ok(NatToBN[2040])
    /\ SmallestExponent(result.val, FEE_MANTISSA_BIT_WIDTH)
         < SmallestExponent(args.fee, FEE_MANTISSA_BIT_WIDTH)

(***************************************************************************)
(* C7: in a sign call every field is serialized before the message is      *)
(* concatenated and the message is concatenated before the signing         *)
(* primitive is invoked; when a field fails validation the call aborts at  *)
(* that field, the signing primitive is never invoked and no transaction   *)
(* is returned.                                                            *)
(***************************************************************************)
FailingStatements(o, a, pk) ==
    {k \in 1..Len(Body(o)) : ~Serialize(Body(o)[k].ser, ArgValue(a, Body(o)[k].arg, pk)).ok}

LocalsUpTo(o, k) == DOMAIN TypeLocal(o) \cup {Body(o)[j].local : j \in 1..k}

\* C7: serialize, then concatenate, then sign; a failing field ends the call
\* before the signing primitive is invoked
C7_SignOrdering ==
    op \in SignOps =>
        LET bad == FailingStatements(op, args, privateKey)
            first == CHOOSE k \in bad : \A j \in bad : k <= j
        IN  /\ msgBytes # <<>> => DOMAIN locals = LocalsUpTo(op, Len(Body(op)))
            /\ signCalls # <<>> => (msgBytes # <<>> /\ signCalls = <<msgBytes>>)
            /\ result.ok => (signCalls = <<msgBytes>> /\ pc = "idle")
            /\ bad = {} => result.err = ""
            /\ bad # {} =>
                 /\ signCalls = <<>>
                 /\ msgBytes = <<>>
                 /\ ~result.ok
                 /\ result.val = <<>>
                 /\ DOMAIN locals \subseteq LocalsUpTo(op, first - 1)
                 /\ pc = "idle" =>
                      (result.err # "" /\ DOMAIN locals = LocalsUpTo(op, first - 1))

\* a Transfer that stopped at its third field
C7_Witness ==
    /\ op = "signSyncTransfer"
    /\ pc = "idle"
    /\ result = Err("TokenId is too big")
    /\ DOMAIN locals = {"type", "from", "to"}
    /\ signCalls = <<>>

(***************************************************************************)
(* C8: serializeTokenId accepts exactly [0, 4096) into 2 bytes,            *)
(* serializeAccountId exactly [0, 2^24) into 3 bytes, serializeNonce       *)
(* exactly [0, 2^32) into 4 bytes, big-endian; every other integer is      *)
(* rejected with a range error.                                            *)
(***************************************************************************)
C8_IntegerDomains ==
    /\ (pc = "idle" /\ op = "serializeTokenId") =>
          LET n == args.tokenId
          IN  /\ result.ok <=> (0 <= n /\ n < 4096)
              /\ result.ok => result.val = <<n \div 256, n % 256>>
              /\ ~result.ok => result.err \in {"Negative tokenId", "TokenId is too big"}
    /\ (pc = "idle" /\ op = "serializeAccountId") =>
          LET n == args.accountId
          IN  /\ result.ok <=> (0 <= n /\ n < 16777216)
              /\ result.ok =>
                   result.val = <<n \div 65536, (n \div 256) % 256, n % 256>>
              /\ ~result.ok =>
                   result.err \in {"Negative account id", "AccountId is too big"}
    /\ (pc = "idle" /\ op = "serializeNonce") =>
          LET n == args.nonce
          IN  /\ result.ok <=> (~n.neg /\ BNgt[BNpow[<<2>>, 32], n.mag])
              /\ result.ok =>
                   (Len(result.val) = 4 /\ BNfromBytesBE[result.val] = n.mag)
              /\ ~result.ok => result.err \in {"Negative nonce", "ERR_OUT_OF_RANGE"}

\* the largest token id, accepted
C8_Witness ==
    /\ op = "serializeTokenId"
    /\ args.tokenId = 4095
    /\ result = Ok(<<15, 255>>)

(***************************************************************************)
(* C9: serializeAddress returns exactly 20 bytes or fails; "0x" + h and    *)
(* "sync:" + h give the same 20 bytes for every 40-hex-character h; a      *)
(* string with neither prefix fails with the prefix error, a prefixed      *)
(* string whose payload does not decode to 20 bytes with the length error; *)
(* syncToLegacyAddress preserves the bytes.                                *)
(***************************************************************************)
IsHex40(h) == Len(h) = 40 /\ \A i \in 1..40 : HexVal(h[i]) >= 0

\* C9: 20 bytes or an error, the same bytes under both prefixes
C9_Address ==
    /\ (pc = "idle" /\ op = "serializeAddress") =>
          LET s == args.address
              is0x == startsWith(s, Prefix0x)
              isSync == startsWith(s, PrefixSync)
          IN  /\ result.ok => Len(result.val) = 20
              /\ (is0x /\ IsHex40(substr(s, 2))) =>
                    /\ result = Ok(PayloadBytes(s))
                    /\ serializeAddress(PrefixSync \o substr(s, 2)) = result
              /\ (isSync /\ IsHex40(substr(s, 5))) =>
                    /\ result = Ok(PayloadBytes(s))
                    /\ serializeAddress(Prefix0x \o substr(s, 5)) = result
              /\ (~is0x /\ ~isSync) =>
                    result = Err("ETH address must start with '0x' and Sync address start with 'sync:'")
              /\ (is0x /\ Len(BufferFromHex(substr(s, 2))) # 20) =>
                    result = Err("Address must be 20 bytes long")
              /\ (isSync /\ Len(BufferFromHex(substr(s, 5))) # 20) =>
                    result = Err("Address must be 20 bytes long")
    /\ (pc = "idle" /\ op = "syncToLegacyAddress" /\ serializeAddress(args.address).ok
          /\ startsWith(args.address, PrefixSync)) =>
          /\ result.ok
          /\ serializeAddress(result.val) = serializeAddress(args.address)

\* a sync address with 40 upper-case hex characters, accepted
C9_Witness ==
    /\ op = "serializeAddress"
    /\ args.address = PrefixSync \o Payload("upper", 40)
    /\ result.ok
    /\ Len(result.val) = 20

(***************************************************************************)
(* C10: no codec or serializer operation mutates any of its arguments:     *)
(* after the call every buffer, bit array or number passed in holds the    *)
(* contents it had before the call.                                        *)
(***************************************************************************)
C10_ArgumentsUnchanged == argAfter = args

(***************************************************************************)
(* C11: integerToFloat(v, expBits, mantissaBits, 10) fails with the        *)
(* overflow error exactly when v > (2^mantissaBits - 1) * 10^(2^expBits-1);*)
(* for every other v its loop terminates, at every step and on exit        *)
(* exponent <= 2^expBits - 1, the final mantissa is at most                *)
(* 2^mantissaBits - 1, and the final exponent is the smallest one for      *)
(* which floor(v / 10^exponent) fits the mantissa.                         *)
(***************************************************************************)
\* C11, the states: the outcome at the end, and the locals inside and after the loop
C11_LoopState ==
    op = "integerToFloat" =>
        LET v == args.integer
            maxE == 2 ^ args.exp_bits - 1
            maxM == MaxMantissa(args.mantissa_bits)
            tooBig == BNgt[v, BNmul[maxM, BNpow[<<10>>, maxE]]]
        IN  /\ pc = "idle" =>
                 /\ ~result.ok <=> tooBig
                 /\ tooBig => result = Err("Integer is too big")
            /\ pc = "loop" =>
                 /\ ~tooBig
                 /\ locals.exponent <= maxE
                 /\ locals.mantissa = DivPow10(v, locals.exponent)
                 /\ \A f \in 0..(locals.exponent - 1) : BNgt[DivPow10(v, f), maxM]
            /\ (pc = "idle" /\ result.ok) =>
                 /\ locals.exponent <= maxE
                 /\ BNle(locals.mantissa, maxM)
                 /\ locals.mantissa = DivPow10(v, locals.exponent)
                 /\ locals.exponent = SmallestExponent(v, args.mantissa_bits)

\* C11: integerToFloat throws exactly above the largest encodable value; its
\* loop keeps exponent <= 2^expBits - 1, ends, and leaves the smallest exponent
\* whose mantissa fits
C11_OverflowAndLoop ==
    /\ []C11_LoopState
    /\ (op = "integerToFloat" /\ pc = "loop") ~> (op = "integerToFloat" /\ pc = "idle")

\* integerToFloat(2047 * 10^31, 5, 11, 10), the largest fee that is encoded,
\* returned after 31 rounds with the mantissa 2047
C11_Witness ==
    /\ op = "integerToFloat"
    /\ pc = "idle"
    /\ args.integer = MaxEncodable(FEE_MANTISSA_BIT_WIDTH)
    /\ args.mantissa_bits = FEE_MANTISSA_BIT_WIDTH
    /\ result.ok
    /\ locals.exponent = 31
    /\ locals.mantissa = NatToBN[2047]

====
